---- MODULE Spec2Model ----
(***************************************************************************)
(* Model of the DOMAdvanced userscript library (src/DOMAdvanced.js):       *)
(* waitForSelector (polling resolver), scrollToSelector (viewport          *)
(* convergence loop) and observeSelector (mutation watcher).               *)
(*                                                                         *)
(* The host is single-threaded: every action below is one whole callback   *)
(* (the synchronous part of a call, a timer callback, an animation-frame   *)
(* callback, a mutation-observer callback) or one change made by the page. *)
(***************************************************************************)
EXTENDS Integers, Sequences, FiniteSets, TLC

VARIABLES
    doc,            \* the live document: slot (document order) -> element state
    now,            \* Date.now(), in ms
    defaults,       \* the process-wide configuration baseline
    warnings,       \* number of console.warn calls so far
    wPc,            \* waitForSelector call: "idle", "waiting" (timer pending), "done"
    wConfig,        \* the call's merged configuration
    wStartTime,     \* startTime of the call
    wTimerDue,      \* time at which the pending setTimeout is due
    wOutcome,       \* settlement of the call's promise
    wCheckTimes,    \* elapsed time (Date.now() - startTime) read by each checkSelector run
    wSuspensions,   \* number of setTimeout(checkSelector, pollInterval) calls
    wEverMatched,   \* whether document.querySelector could have matched at any time of the call
    layout,         \* geometry of the element scrollToSelector works on
    innerHeight,    \* window.innerHeight
    scrollY,        \* the window's vertical scroll position
    scrollTarget,   \* position the smooth scroll in progress is heading to
    maxScrollY,     \* largest scroll position of the page
    sPc,            \* scrollToSelector call: "idle", "frame" (requestAnimationFrame pending), "done"
    sConfig,        \* the call's merged configuration
    sElement,       \* the element handle the call scrolls to
    sAttempts,      \* attempts
    sOutcome,       \* settlement of the call's promise
    sScrolls,       \* the top of every window.scrollBy call, in order
    sRect,          \* the rectangle read by the last getBoundingClientRect
    oPc,            \* observeSelector watcher: "idle", "observing", "disconnected"
    oConfig,        \* the watcher's merged configuration
    oStops,         \* whether the script's callback calls obs.disconnect()
    oRecords,       \* whether mutation records are queued for the observer
    oBatches,       \* number of mutation batches delivered to the observer
    oCallbacks,     \* the element of every callback(element, obs) call, in order
    oMatchedAtInstall,  \* whether the selector matched when the watcher was installed
    oLateChanges,   \* whether the page changed after the observer was disconnected
    oUncaught,      \* number of exceptions thrown out of the MutationObserver callback
    selectorValid,  \* whether document.querySelector accepts the selector the calls are given
    cfgLog,         \* the argument of every config(newConfig) call, in order
    callLog,        \* per operation: the options it was called with and the number of
                    \* config calls made before it
    qCalls,         \* two waitForSelector calls on two selectors: the closure of each
    qDocs,          \* the document as each of the two selectors matches it
    qAlone,         \* the closure of each of the two calls had it been the only call
    cCalls,         \* two scrollToSelector calls on two elements: the closure of each
    frameQueue,     \* the animation frame callbacks still to run in the current frame
    nextQueue       \* the animation frame callbacks requested for the next frame

view == <<layout, innerHeight, scrollY, scrollTarget, maxScrollY>>

svars == <<sPc, sConfig, sElement, sAttempts, sOutcome, sScrolls, sRect>>

ovars == <<oPc, oConfig, oStops, oRecords, oBatches, oCallbacks, oMatchedAtInstall,
           oLateChanges, oUncaught>>

\* the variables the actions of the single calls below leave alone
qvars == <<qCalls, qDocs, qAlone>>

cvars == <<cCalls, frameQueue, nextQueue>>

rest == <<selectorValid, cfgLog, callLog, qvars, cvars>>

wvars == <<wPc, wConfig, wStartTime, wTimerDue, wOutcome, wCheckTimes, wSuspensions,
           wEverMatched>>

(***************************************************************************)
(* Bounds of the model                                                     *)
(***************************************************************************)
\* number of document slots that can hold an element matching the selector
MaxElems == 2
\* a timer fires between 0 and MaxLate ms after it is due
MaxLate == 2
\* number of mutation batches delivered to a watcher
MaxBatches == 2
\* number of config(newConfig) calls
MaxConfigCalls == 2

\* values of the options drawn for the calls
Timeouts == {0, 250, 300}
PollIntervals == {100, 150}

(***************************************************************************)
(* The document                                                            *)
(***************************************************************************)
Slots == 1..MaxElems

NoElem == [present |-> FALSE, display |-> "none", visibility |-> "hidden",
           opacity |-> "0", offsetWidth |-> 0, offsetHeight |-> 0]

\* every combination of the properties isVisible reads
StyledElems == [present : {TRUE}, display : {"block", "none"},
                visibility : {"visible", "hidden"}, opacity : {"1", "0"},
                offsetWidth : {0, 10}, offsetHeight : {0, 10}]

ShownElem == [present |-> TRUE, display |-> "block", visibility |-> "visible",
              opacity |-> "1", offsetWidth |-> 10, offsetHeight |-> 10]

HiddenElem == [ShownElem EXCEPT !.display = "none"]

\* the first slot takes every state, the later ones are absent, shown or hidden
ElemStates(i) == IF i = 1 THEN StyledElems \cup {NoElem}
                 ELSE {NoElem, ShownElem, HiddenElem}

Docs == {d \in [Slots -> StyledElems \cup {NoElem}] : \A i \in Slots : d[i] \in ElemStates(i)}

\* the handle standing for null
Null == 0

Min(a, b) == IF a < b THEN a ELSE b
Max(a, b) == IF a > b THEN a ELSE b

\* document.querySelector(selector): the first match in document order, or null
querySelector(d) ==
    IF \E i \in Slots : d[i].present
    THEN CHOOSE i \in Slots : d[i].present /\ \A j \in Slots : d[j].present => i <= j
    ELSE Null

isVisibleNoOpacity(d, e) ==
    IF e = Null THEN FALSE
    ELSE /\ d[e].display # "none"
         /\ d[e].visibility # "hidden"
         /\ d[e].offsetWidth > 0
         /\ d[e].offsetHeight > 0

\* isVisible(element)
isVisible(d, e) ==
    IF e = Null THEN FALSE
    ELSE /\ d[e].display # "none"
         /\ d[e].visibility # "hidden"
         /\ d[e].opacity # "0"
         /\ d[e].offsetWidth > 0
         /\ d[e].offsetHeight > 0

(***************************************************************************)
(* Configuration                                                           *)
(***************************************************************************)
Keys == {"timeout", "pollInterval", "scrollStep", "maxScrollAttempts", "visibleCheck",
         "throwErrors"}

DefaultConfig == [timeout |-> 10000, pollInterval |-> 100, scrollStep |-> 100,
                  maxScrollAttempts |-> 50, visibleCheck |-> TRUE, throwErrors |-> FALSE]

\* a merge over the defaults as the file declares them
MergeFrozen(defs, options) ==
    [k \in Keys |-> IF k \in options.has THEN options.val[k] ELSE DefaultConfig[k]]

\* { ...defaults, ...options }; an options object is the set of keys it has and
\* their values
Merge(defs, options) ==
    [k \in Keys |-> IF k \in options.has THEN options.val[k] ELSE defs[k]]

\* options of the waitForSelector calls; every call gives a timeout
WaitOptions ==
    {[has |-> h, val |-> [DefaultConfig EXCEPT !.timeout = t, !.pollInterval = p,
                                               !.visibleCheck = v, !.throwErrors = x]] :
        h \in {hh \in SUBSET {"timeout", "pollInterval", "visibleCheck", "throwErrors"} :
                  "timeout" \in hh},
        t \in Timeouts, p \in PollIntervals, v \in BOOLEAN, x \in BOOLEAN}

(***************************************************************************)
(* waitForSelector                                                         *)
(***************************************************************************)
Pending == [tag |-> "pending", element |-> Null]
Found(e) == [tag |-> "Found", element |-> e]
NotFound == [tag |-> "NotFound", element |-> Null]
Failed == [tag |-> "Failed", element |-> Null]
\* the promise rejected with the SyntaxError document.querySelector raised
HostError == [tag |-> "SyntaxError", element |-> Null]

AcceptedOnlyVisible(d, cfg) ==
    LET element == querySelector(d)
    IN  element # Null /\ isVisible(d, element)

\* element && (!visibleCheck || isVisible(element))
Accepted(d, cfg) ==
    LET element == querySelector(d)
    IN  element # Null /\ (~cfg.visibleCheck \/ isVisible(d, element))

TimedOutAtOrAfter(elapsed, cfg) == elapsed >= cfg.timeout

\* a check that never gives up
TimedOutNever(elapsed, cfg) == FALSE

\* Date.now() - startTime > timeout
TimedOut(elapsed, cfg) == elapsed > cfg.timeout

ExhaustWarnsAlways(cfg) == 1

\* console.warn(error.message) is reached only when throwErrors is false
ExhaustWarns(cfg) == IF cfg.throwErrors THEN 0 ELSE 1

\* reject(error) when throwErrors, else resolve(null)
ExhaustOutcome(cfg) == IF cfg.throwErrors THEN Failed ELSE NotFound

\* one run of checkSelector at time t
checkSelector(t) ==
    LET elapsed == t - wStartTime'
        cfg == wConfig'
    IN  /\ wCheckTimes' = Append(wCheckTimes, elapsed)
        /\ wEverMatched' = (wEverMatched \/ (selectorValid /\ querySelector(doc) # Null))
        /\ IF ~selectorValid
           THEN \* querySelector throws inside the promise executor: the promise rejects
                /\ wOutcome' = HostError
                /\ wPc' = "done"
                /\ wTimerDue' = wTimerDue
                /\ wSuspensions' = wSuspensions
                /\ warnings' = warnings
           ELSE IF Accepted(doc, cfg)
           THEN /\ wOutcome' = Found(querySelector(doc))
                /\ wPc' = "done"
                /\ wTimerDue' = wTimerDue
                /\ wSuspensions' = wSuspensions
                /\ warnings' = warnings
           ELSE IF TimedOut(elapsed, cfg)
           THEN /\ wPc' = "done"
                /\ wTimerDue' = wTimerDue
                /\ wSuspensions' = wSuspensions
                /\ wOutcome' = ExhaustOutcome(cfg)
                /\ warnings' = warnings + ExhaustWarns(cfg)
           ELSE /\ wPc' = "waiting"
                /\ wTimerDue' = t + cfg.pollInterval
                /\ wSuspensions' = wSuspensions + 1
                /\ wOutcome' = wOutcome
                /\ warnings' = warnings

WaitCallSleepFirst(options) ==
    /\ wPc = "idle"
    /\ wConfig' = Merge(defaults, options)
    /\ wStartTime' = now
    /\ wPc' = "waiting"
    /\ wTimerDue' = now + wConfig'.pollInterval
    /\ wSuspensions' = wSuspensions + 1
    /\ UNCHANGED <<wOutcome, wCheckTimes, wEverMatched, warnings>>
    /\ UNCHANGED <<doc, now, defaults, view, svars, ovars>>

\* waitForSelector(selector, options): merge, read the clock, first check
WaitCall(options) ==
    /\ wPc = "idle"
    /\ wConfig' = Merge(defaults, options)
    /\ wStartTime' = now
    /\ checkSelector(now)
    /\ UNCHANGED <<doc, now, defaults, view, svars, ovars>>

\* the timer set by setTimeout(checkSelector, pollInterval) fires
WaitTimer(late) ==
    /\ wPc = "waiting"
    /\ now' = wTimerDue + late
    /\ UNCHANGED <<wConfig, wStartTime>>
    /\ checkSelector(now')
    /\ UNCHANGED <<doc, defaults, view, svars, ovars>>

\* the page changes one element while the call is in flight
WaitDocChange(i, s) ==
    /\ wPc = "waiting"
    /\ doc[i] # s
    /\ doc' = [doc EXCEPT ![i] = s]
    /\ wEverMatched' = (wEverMatched \/ s.present)
    /\ UNCHANGED <<now, defaults, warnings, wPc, wConfig, wStartTime, wTimerDue, wOutcome,
                   wCheckTimes, wSuspensions, view, svars, ovars>>

vars == <<doc, now, defaults, warnings, wvars, view, svars, ovars, rest>>

WaitIdle ==
    /\ wPc = "idle"
    /\ wConfig = DefaultConfig
    /\ wStartTime = 0
    /\ wTimerDue = 0
    /\ wOutcome = Pending
    /\ wCheckTimes = <<>>
    /\ wSuspensions = 0
    /\ wEverMatched = FALSE

(***************************************************************************)
(* scrollToSelector                                                        *)
(***************************************************************************)
\* values drawn for the geometry and for the options of the calls
ViewportHeights == {600}
Heights == {100, 580, 700}
Tops == {-150, 20, 270, 750}
StartScrolls == {0, 200}
PageScrolls == {200, 2000}
Travels == {40, 1000}
ScrollSteps == {30, 100}
AttemptCaps == {0, 1, 2, 5}

\* an element that moves with the page ("static") or keeps its place in the
\* viewport whatever the scroll position ("fixed"); top0 is its rect.top at call
\* time, docTop its offset in the page, travel the distance a smooth scroll covers
\* between two animation frames
Layouts ==
    {[kind |-> k, top0 |-> t, docTop |-> t + y, height |-> h, travel |-> v, scroll0 |-> y] :
        k \in {"static", "fixed"}, t \in Tops, y \in StartScrolls, h \in Heights,
        v \in Travels}

\* element.getBoundingClientRect() with the window scrolled to y
NoRect == [top |-> 0, bottom |-> 0]

\* an element without a box (display: none) measures as the zero rectangle
Rect(y) ==
    LET top == IF layout.kind = "fixed" THEN layout.top0 ELSE layout.docTop - y
    IN  IF doc[sElement'].display = "none" THEN NoRect
        ELSE [top |-> top, bottom |-> top + layout.height]

\* rect.top >= 0 && rect.bottom <= window.innerHeight
Contained(rect) == rect.top >= 0 /\ rect.bottom <= innerHeight

NextAttemptsStuck(a) == a

\* attempts++
NextAttempts(a) == a + 1

AttemptsExhaustedLate(attempts, cfg) == attempts > cfg.maxScrollAttempts

\* attempts >= maxScrollAttempts
AttemptsExhausted(attempts, cfg) == attempts >= cfg.maxScrollAttempts

\* top: rect.top < 0 ? -scrollStep : scrollStep
ScrollDelta(rect, cfg) == IF rect.top < 0 THEN -cfg.scrollStep ELSE cfg.scrollStep

\* console.warn(error.message) is reached only when throwErrors is false
ScrollExhaustWarns(cfg) == IF cfg.throwErrors THEN 0 ELSE 1

ScrollExhaustNull(cfg, e) == IF cfg.throwErrors THEN Failed ELSE NotFound

\* reject(error) when throwErrors, else resolve(element)
ScrollExhaustOutcome(cfg, e) == IF cfg.throwErrors THEN Failed ELSE Found(e)

\* the position a scroll by dy from y ends at: the page does not scroll past its ends
ClampScroll(y) == Max(0, Min(maxScrollY, y))

\* where a smooth scroll heading to target has got to at the next animation frame
Animate(y, target) ==
    IF target >= y THEN Min(target, y + layout.travel) ELSE Max(target, y - layout.travel)

\* one run of scrollCheck with the window scrolled to y
scrollCheck(y) ==
    LET cfg == sConfig'
        attempts == NextAttempts(sAttempts)
        rect == Rect(y)
    IN  /\ sAttempts' = attempts
        /\ sRect' = rect
        /\ scrollY' = y
        /\ IF Contained(rect)
           THEN /\ sOutcome' = Found(sElement')
                /\ sPc' = "done"
                /\ warnings' = warnings
                /\ sScrolls' = sScrolls
                /\ scrollTarget' = scrollTarget
           ELSE IF AttemptsExhausted(attempts, cfg)
           THEN /\ sOutcome' = ScrollExhaustOutcome(cfg, sElement')
                /\ sPc' = "done"
                /\ warnings' = warnings + ScrollExhaustWarns(cfg)
                /\ sScrolls' = sScrolls
                /\ scrollTarget' = scrollTarget
           ELSE /\ sScrolls' = Append(sScrolls, ScrollDelta(rect, cfg))
                /\ scrollTarget' = ClampScroll(y + ScrollDelta(rect, cfg))
                /\ sPc' = "frame"
                /\ sOutcome' = sOutcome
                /\ warnings' = warnings

\* options of the scrollToSelector calls
ScrollOptions ==
    {[has |-> h, val |-> [DefaultConfig EXCEPT !.scrollStep = p, !.maxScrollAttempts = n,
                                               !.throwErrors = x]] :
        h \in SUBSET {"scrollStep", "maxScrollAttempts", "throwErrors"},
        p \in ScrollSteps, n \in AttemptCaps, x \in BOOLEAN}

\* scrollToSelector(element, options) with an element handle: merge, first scrollCheck
ScrollCall(e, options) ==
    /\ sPc = "idle"
    /\ sConfig' = Merge(defaults, options)
    /\ sElement' = e
    /\ scrollCheck(scrollY)
    /\ UNCHANGED <<doc, now, defaults, wvars, ovars, layout, innerHeight, maxScrollY>>

\* the callback given to requestAnimationFrame(scrollCheck) runs at the next frame
ScrollFrame ==
    /\ sPc = "frame"
    /\ UNCHANGED <<sConfig, sElement>>
    /\ scrollCheck(Animate(scrollY, scrollTarget))
    /\ UNCHANGED <<doc, now, defaults, wvars, ovars, layout, innerHeight, maxScrollY>>

\* { ...options, visibleCheck: false } of keeping the caller's options as they are
KeepVisibleCheck(options) == options

\* { ...options, visibleCheck: false }
ForcePresence(options) ==
    [has |-> options.has \cup {"visibleCheck"},
     val |-> [options.val EXCEPT !.visibleCheck = FALSE]]

\* the outcome of scrollToSelector when its element is null
NullElementOutcome(cfg) == IF cfg.throwErrors THEN Failed ELSE NotFound

NullElementWarns(cfg) == IF cfg.throwErrors THEN 0 ELSE 1

\* scrollToSelector(selector, options) with a string: merge, then await the
\* waitForSelector call, whose first check runs at once
ScrollCallQuery(options) ==
    /\ sPc = "idle"
    /\ wPc = "idle"
    /\ sConfig' = Merge(defaults, options)
    /\ sPc' = "resolving"
    /\ wConfig' = Merge(defaults, ForcePresence(options))
    /\ wStartTime' = now
    /\ checkSelector(now)
    /\ UNCHANGED <<doc, now, defaults, view, ovars,
                   sElement, sAttempts, sOutcome, sScrolls, sRect>>

\* the continuation of the await once the waitForSelector promise has settled
ScrollResume ==
    /\ sPc = "resolving"
    /\ wPc = "done"
    /\ sConfig' = sConfig
    /\ IF wOutcome.tag = "Found"
       THEN /\ sElement' = wOutcome.element
            /\ scrollCheck(scrollY)
       ELSE /\ sPc' = "done"
            /\ IF wOutcome.tag = "NotFound"
               THEN /\ sOutcome' = NullElementOutcome(sConfig)
                    /\ warnings' = warnings + NullElementWarns(sConfig)
               ELSE \* the rejection of the awaited promise rejects the call
                    /\ sOutcome' = wOutcome
                    /\ warnings' = warnings
            /\ UNCHANGED <<sElement, sAttempts, sScrolls, sRect, scrollY, scrollTarget>>
    /\ UNCHANGED <<doc, now, defaults, wvars, ovars, layout, innerHeight, maxScrollY>>

ScrollIdle ==
    /\ sPc = "idle"
    /\ sConfig = DefaultConfig
    /\ sElement = Null
    /\ sAttempts = 0
    /\ sOutcome = Pending
    /\ sScrolls = <<>>
    /\ sRect = NoRect

(***************************************************************************)
(* observeSelector                                                         *)
(***************************************************************************)
\* options of the observeSelector calls
WatchOptions ==
    {[has |-> h, val |-> [DefaultConfig EXCEPT !.visibleCheck = v]] :
        h \in SUBSET {"visibleCheck"}, v \in BOOLEAN}

WatchIdle ==
    /\ oPc = "idle"
    /\ oConfig = DefaultConfig
    /\ oStops = FALSE
    /\ oRecords = FALSE
    /\ oBatches = 0
    /\ oCallbacks = <<>>
    /\ oMatchedAtInstall = FALSE
    /\ oLateChanges = FALSE
    /\ oUncaught = 0

WatchInstallChecks(options, stops) ==
    /\ oPc = "idle"
    /\ oConfig' = Merge(defaults, options)
    /\ oStops' = stops
    /\ oPc' = "observing"
    /\ oMatchedAtInstall' = (querySelector(doc) # Null)
    /\ oCallbacks' = IF Accepted(doc, oConfig') THEN <<querySelector(doc)>> ELSE oCallbacks
    /\ UNCHANGED <<oRecords, oBatches, oLateChanges, oUncaught>>
    /\ UNCHANGED <<doc, now, defaults, warnings, wvars, view, svars>>

\* observeSelector(selector, callback, options): merge, new MutationObserver,
\* observer.observe(document.body, ...); stops tells whether the callback given
\* disconnects the observer it is handed
WatchInstall(options, stops) ==
    /\ oPc = "idle"
    /\ oConfig' = Merge(defaults, options)
    /\ oStops' = stops
    /\ oPc' = "observing"
    /\ oMatchedAtInstall' = (querySelector(doc) # Null)
    /\ UNCHANGED <<oRecords, oBatches, oCallbacks, oLateChanges, oUncaught>>
    /\ UNCHANGED <<doc, now, defaults, warnings, wvars, view, svars>>

\* the page changes one element; an insertion or a removal under document.body is
\* always recorded, a change of computed style or size is recorded when it comes
\* from a mutation of the body's subtree (noted) and not otherwise
WatchDocChange(i, s, noted) ==
    /\ doc[i] # s
    /\ doc' = [doc EXCEPT ![i] = s]
    /\ oRecords' = (oRecords \/ (oPc = "observing" /\ (noted \/ doc[i].present # s.present)))
    /\ oLateChanges' = (oLateChanges \/ oPc = "disconnected")
    /\ UNCHANGED <<oPc, oConfig, oStops, oBatches, oCallbacks, oMatchedAtInstall, oUncaught>>
    /\ UNCHANGED <<now, defaults, warnings, wvars, view, svars>>

\* one mutation by the page: an element is inserted or removed (always recorded),
\* or one of the properties isVisible reads changes on an element that stays
OneMutation(old, new, noted) ==
    IF old.present # new.present THEN noted
    ELSE Cardinality({f \in {"display", "visibility", "opacity", "offsetWidth", "offsetHeight"} :
                         old[f] # new[f]}) = 1

\* the page mutates a node of the body that the selector does not match
WatchUnrelatedChange ==
    /\ oPc = "observing"
    /\ ~oRecords
    /\ oRecords' = TRUE
    /\ UNCHANGED <<oPc, oConfig, oStops, oBatches, oCallbacks, oMatchedAtInstall,
                   oLateChanges, oUncaught>>
    /\ UNCHANGED <<doc, now, defaults, warnings, wvars, view, svars>>

WatchDeliverOnce ==
    /\ oPc = "observing"
    /\ oRecords
    /\ oBatches < MaxBatches
    /\ oBatches' = oBatches + 1
    /\ oRecords' = FALSE
    /\ IF Accepted(doc, oConfig)
       THEN /\ oCallbacks' = Append(oCallbacks, querySelector(doc))
            /\ oPc' = "disconnected"
       ELSE UNCHANGED <<oCallbacks, oPc>>
    /\ UNCHANGED <<oConfig, oStops, oMatchedAtInstall, oLateChanges, oUncaught>>
    /\ UNCHANGED <<doc, now, defaults, warnings, wvars, view, svars>>

\* the MutationObserver callback runs on the queued batch
WatchDeliver ==
    /\ oPc = "observing"
    /\ oRecords
    /\ oBatches < MaxBatches
    /\ oBatches' = oBatches + 1
    /\ oRecords' = FALSE
    /\ IF ~selectorValid
       THEN \* querySelector throws out of the handler: nothing catches it
            /\ oUncaught' = oUncaught + 1
            /\ UNCHANGED <<oCallbacks, oPc>>
       ELSE IF Accepted(doc, oConfig)
       THEN /\ oCallbacks' = Append(oCallbacks, querySelector(doc))
            /\ oPc' = IF oStops THEN "disconnected" ELSE oPc
            /\ oUncaught' = oUncaught
       ELSE UNCHANGED <<oCallbacks, oPc, oUncaught>>
    /\ UNCHANGED <<oConfig, oStops, oMatchedAtInstall, oLateChanges>>
    /\ UNCHANGED <<doc, now, defaults, warnings, wvars, view, svars>>

\* the caller disposes the handle observeSelector returned: observer.disconnect()
WatchDisconnect ==
    /\ oPc = "observing"
    /\ oPc' = "disconnected"
    /\ oRecords' = FALSE
    /\ UNCHANGED <<oConfig, oStops, oBatches, oCallbacks, oMatchedAtInstall, oLateChanges,
                   oUncaught>>
    /\ UNCHANGED <<doc, now, defaults, warnings, wvars, view, svars>>

\* a page scrolled to the top, holding one small element in view
ViewAtRest ==
    /\ layout = [kind |-> "static", top0 |-> 20, docTop |-> 20, height |-> 100,
                 travel |-> 1000, scroll0 |-> 0]
    /\ innerHeight = 600
    /\ scrollY = 0
    /\ scrollTarget = 0
    /\ maxScrollY = 2000

(***************************************************************************)
(* config                                                                  *)
(***************************************************************************)
Ops == {"wait", "scroll", "watch"}

NoOptions == [has |-> {}, val |-> DefaultConfig]

\* Object.assign(defaults, newConfig)
Assign(defs, newConfig) ==
    [k \in Keys |-> IF k \in newConfig.has THEN newConfig.val[k] ELSE defs[k]]

\* the configuration of a call if it were the defaults object itself
SnapshotAliased(snapshot, newConfig) == Assign(snapshot, newConfig)

\* the configuration object of a call after Object.assign(defaults, newConfig):
\* { ...defaults, ...options } made it an object of its own
SnapshotAfterAssign(snapshot, newConfig) == snapshot

\* the arguments of the config calls
Partials ==
    {[has |-> {"timeout"}, val |-> [DefaultConfig EXCEPT !.timeout = 250]],
     [has |-> {"pollInterval"}, val |-> [DefaultConfig EXCEPT !.pollInterval = 150]],
     [has |-> {"visibleCheck"}, val |-> [DefaultConfig EXCEPT !.visibleCheck = FALSE]],
     [has |-> {"throwErrors"}, val |-> [DefaultConfig EXCEPT !.throwErrors = TRUE]],
     [has |-> {"scrollStep", "maxScrollAttempts"},
      val |-> [DefaultConfig EXCEPT !.scrollStep = 30, !.maxScrollAttempts = 2]],
     [has |-> {"visibleCheck", "throwErrors", "pollInterval"}, val |-> DefaultConfig]}

\* config(newConfig)
ConfigCall(newConfig) ==
    /\ Len(cfgLog) < MaxConfigCalls
    /\ defaults' = Assign(defaults, newConfig)
    /\ cfgLog' = Append(cfgLog, newConfig)
    /\ wConfig' = SnapshotAfterAssign(wConfig, newConfig)
    /\ sConfig' = SnapshotAfterAssign(sConfig, newConfig)
    /\ oConfig' = SnapshotAfterAssign(oConfig, newConfig)
    /\ UNCHANGED <<doc, now, warnings, view, selectorValid, callLog, qvars, cvars>>
    /\ UNCHANGED <<wPc, wStartTime, wTimerDue, wOutcome, wCheckTimes, wSuspensions,
                   wEverMatched>>
    /\ UNCHANGED <<sPc, sElement, sAttempts, sOutcome, sScrolls, sRect>>
    /\ UNCHANGED <<oPc, oStops, oRecords, oBatches, oCallbacks, oMatchedAtInstall,
                   oLateChanges, oUncaught>>

\* an operation is called with these options after the config calls made so far
CallStarts(op, options) ==
    /\ callLog' = [callLog EXCEPT ![op] = [opts |-> options, at |-> Len(cfgLog)]]
    /\ UNCHANGED <<selectorValid, cfgLog, qvars, cvars>>

\* no config call and no operation call yet
LogIdle ==
    /\ cfgLog = <<>>
    /\ callLog = [op \in Ops |-> [opts |-> NoOptions, at |-> 0]]

(***************************************************************************)
(* Two waitForSelector calls in flight at once                             *)
(***************************************************************************)
Calls == {1, 2}

\* the closure of a waitForSelector call before the call
IdleWaiter == [pc |-> "idle", config |-> DefaultConfig, startTime |-> 0, timerDue |-> 0,
               outcome |-> Pending, checks |-> 0]

\* a startTime kept in one place for every call
StartTimesShared(calls, c, t) == [x \in Calls |-> [calls[x] EXCEPT !.startTime = t]]

\* const startTime = Date.now() in the closure of call c
StartTimes(calls, c, t) == [calls EXCEPT ![c].startTime = t]

\* one run of checkSelector at time t on the closure st, d the document as its
\* selector matches it
CheckStep(st, d, t) ==
    IF Accepted(d, st.config)
    THEN [st EXCEPT !.pc = "done", !.outcome = Found(querySelector(d)), !.checks = @ + 1]
    ELSE IF TimedOut(t - st.startTime, st.config)
    THEN [st EXCEPT !.pc = "done", !.outcome = ExhaustOutcome(st.config), !.checks = @ + 1]
    ELSE [st EXCEPT !.pc = "waiting", !.timerDue = t + st.config.pollInterval,
                    !.checks = @ + 1]

\* the warnings of the check that took st to after
CheckWarns(st, after) ==
    IF st.pc # "done" /\ after.pc = "done" /\ after.outcome.tag # "Found"
    THEN ExhaustWarns(st.config) ELSE 0

ConcWaitOptions ==
    {o \in WaitOptions :
        /\ o.has = {"timeout", "pollInterval", "visibleCheck", "throwErrors"}
        /\ o.val.timeout \in {0, 250}
        /\ o.val.throwErrors = (o.val.pollInterval = 150)
        /\ o.val.visibleCheck = (o.val.timeout = 250)}

\* waitForSelector(selector_c, options) while the other call may be in flight
ConcWaitCall(c, options) ==
    /\ qCalls[c].pc = "idle"
    /\ LET cfg == Merge(defaults, options)
           started == StartTimes([qCalls EXCEPT ![c].config = cfg], c, now)
           alone == [qAlone[c] EXCEPT !.config = cfg, !.startTime = now]
       IN  /\ qCalls' = [started EXCEPT ![c] = CheckStep(started[c], qDocs[c], now)]
           /\ qAlone' = [qAlone EXCEPT ![c] = CheckStep(alone, qDocs[c], now)]
           /\ warnings' = warnings + CheckWarns(started[c], qCalls'[c])
    /\ UNCHANGED <<doc, now, defaults, wvars, view, svars, ovars>>
    /\ UNCHANGED <<selectorValid, cfgLog, callLog, qDocs, cvars>>

\* the host runs the timer callback of call c; timers run in the order they are due
ConcWaitTimer(c, late) ==
    /\ qCalls[c].pc = "waiting"
    /\ \A x \in Calls : qCalls[x].pc = "waiting" => qCalls[c].timerDue <= qCalls[x].timerDue
    /\ now' = Max(now, qCalls[c].timerDue) + late
    /\ qCalls' = [qCalls EXCEPT ![c] = CheckStep(qCalls[c], qDocs[c], now')]
    /\ qAlone' = [qAlone EXCEPT ![c] = CheckStep(qAlone[c], qDocs[c], now')]
    /\ warnings' = warnings + CheckWarns(qCalls[c], qCalls'[c])
    /\ UNCHANGED <<doc, defaults, wvars, view, svars, ovars>>
    /\ UNCHANGED <<selectorValid, cfgLog, callLog, qDocs, cvars>>

\* the page changes the element selector c matches
ConcDocChange(c, s) ==
    /\ \E x \in Calls : qCalls[x].pc = "waiting"
    /\ qDocs[c][1] # s
    /\ qDocs' = [qDocs EXCEPT ![c][1] = s]
    /\ UNCHANGED <<doc, now, defaults, warnings, wvars, view, svars, ovars>>
    /\ UNCHANGED <<selectorValid, cfgLog, callLog, qCalls, qAlone, cvars>>

ConcWaitIdle ==
    /\ qCalls = [c \in Calls |-> IdleWaiter]
    /\ qAlone = [c \in Calls |-> IdleWaiter]
    /\ qDocs = [c \in Calls |-> [i \in Slots |-> NoElem]]

(***************************************************************************)
(* Two scrollToSelector calls in flight at once                            *)
(***************************************************************************)
\* the closure of a scrollToSelector call before the call; docTop is the offset
\* of its element in the page, y0 the scroll position at the call
IdleScroller == [pc |-> "idle", config |-> DefaultConfig, docTop |-> 0, y0 |-> 0,
                 attempts |-> 0, outcome |-> Pending, contained |-> FALSE]

\* the height of the two elements
ConcHeight == 100

\* their offsets in the page
ConcTops == {50, 220, 950}

ConcScrollOptions ==
    {o \in ScrollOptions : /\ o.has = {"maxScrollAttempts"}
                           /\ o.val.maxScrollAttempts \in {5}
                           /\ o.val.scrollStep = 100 /\ ~o.val.throwErrors}
    \cup {NoOptions}

\* element.getBoundingClientRect() of the element at docTop, the window scrolled to y
ConcRect(docTop, y) == [top |-> docTop - y, bottom |-> docTop - y + ConcHeight]

\* one run of scrollCheck for call c
ConcScrollCheck(c, st) ==
    LET attempts == NextAttempts(st.attempts)
        rect == ConcRect(st.docTop, scrollY)
    IN  IF Contained(rect)
        THEN /\ cCalls' = [cCalls EXCEPT ![c] = [st EXCEPT !.pc = "done", !.attempts = attempts,
                                                          !.outcome = Found(c),
                                                          !.contained = TRUE]]
             /\ UNCHANGED <<scrollTarget, nextQueue, warnings>>
        ELSE IF AttemptsExhausted(attempts, st.config)
        THEN /\ cCalls' = [cCalls EXCEPT ![c] = [st EXCEPT !.pc = "done", !.attempts = attempts,
                                                          !.outcome =
                                                              ScrollExhaustOutcome(st.config, c)]]
             /\ warnings' = warnings + ScrollExhaustWarns(st.config)
             /\ UNCHANGED <<scrollTarget, nextQueue>>
        ELSE /\ cCalls' = [cCalls EXCEPT ![c] = [st EXCEPT !.pc = "frame",
                                                          !.attempts = attempts]]
             /\ scrollTarget' = ClampScroll(scrollY + ScrollDelta(rect, st.config))
             /\ nextQueue' = Append(nextQueue, c)
             /\ warnings' = warnings

\* scrollToSelector(element_c, options) from a script, between two frames, while
\* the other call has not settled
ConcScrollCall(c, docTop, options) ==
    /\ cCalls[c].pc = "idle"
    /\ frameQueue = <<>>
    /\ \A x \in Calls : cCalls[x].pc # "done"
    /\ \A x \in Calls : cCalls[x].pc # "idle" => cCalls[x].docTop # docTop
    /\ ConcScrollCheck(c, [cCalls[c] EXCEPT !.config = Merge(defaults, options),
                                            !.docTop = docTop, !.y0 = scrollY])
    /\ UNCHANGED <<doc, now, defaults, wvars, svars, ovars, layout, innerHeight, scrollY,
                   maxScrollY>>
    /\ UNCHANGED <<selectorValid, cfgLog, callLog, qvars, frameQueue>>

\* a frame begins: the smooth scroll advances and the requested callbacks are due
ConcBeginFrame ==
    /\ frameQueue = <<>>
    /\ nextQueue # <<>>
    /\ scrollY' = Animate(scrollY, scrollTarget)
    /\ frameQueue' = nextQueue
    /\ nextQueue' = <<>>
    /\ UNCHANGED <<doc, now, defaults, warnings, wvars, svars, ovars, layout, innerHeight,
                   scrollTarget, maxScrollY>>
    /\ UNCHANGED <<selectorValid, cfgLog, callLog, qvars, cCalls>>

\* the first callback of the frame runs
ConcFrameCallback ==
    /\ frameQueue # <<>>
    /\ frameQueue' = Tail(frameQueue)
    /\ ConcScrollCheck(Head(frameQueue), cCalls[Head(frameQueue)])
    /\ UNCHANGED <<doc, now, defaults, wvars, svars, ovars, layout, innerHeight, scrollY,
                   maxScrollY>>
    /\ UNCHANGED <<selectorValid, cfgLog, callLog, qvars>>

ConcScrollIdle ==
    /\ cCalls = [c \in Calls |-> IdleScroller]
    /\ frameQueue = <<>>
    /\ nextQueue = <<>>

\* a selector the host accepts, nothing else in flight
RestIdle ==
    /\ selectorValid = TRUE
    /\ LogIdle
    /\ ConcWaitIdle
    /\ ConcScrollIdle

Init ==
    /\ doc \in Docs
    /\ now = 0
    /\ defaults = DefaultConfig
    /\ warnings = 0
    /\ WaitIdle
    /\ ScrollIdle
    /\ ViewAtRest
    /\ WatchIdle
    /\ RestIdle

Next ==
    \/ \E options \in WaitOptions : WaitCall(options) /\ UNCHANGED rest
    \/ \E late \in 0..MaxLate : WaitTimer(late) /\ UNCHANGED rest
    \/ \E i \in Slots : \E s \in ElemStates(i) : WaitDocChange(i, s) /\ UNCHANGED rest

Spec == Init /\ [][Next]_vars

InitScroll ==
    /\ doc = [i \in Slots |-> ShownElem]
    /\ now = 0
    /\ defaults = DefaultConfig
    /\ warnings = 0
    /\ WaitIdle
    /\ WatchIdle
    /\ ScrollIdle
    /\ RestIdle
    /\ layout \in Layouts
    /\ innerHeight \in ViewportHeights
    /\ scrollY = layout.scroll0
    /\ scrollTarget = scrollY
    /\ maxScrollY \in PageScrolls

NextScroll ==
    \/ \E e \in Slots : \E options \in ScrollOptions : ScrollCall(e, options) /\ UNCHANGED rest
    \/ ScrollFrame /\ UNCHANGED rest

SpecScroll == InitScroll /\ [][NextScroll]_vars

InitWatch ==
    /\ doc \in Docs
    /\ now = 0
    /\ defaults = DefaultConfig
    /\ warnings = 0
    /\ WaitIdle
    /\ ScrollIdle
    /\ ViewAtRest
    /\ WatchIdle
    /\ RestIdle

NextWatch ==
    \/ \E options \in WatchOptions : \E stops \in BOOLEAN :
            WatchInstall(options, stops) /\ UNCHANGED rest
    \/ \E i \in Slots : \E s \in ElemStates(i) : \E noted \in BOOLEAN :
            OneMutation(doc[i], s, noted) /\ WatchDocChange(i, s, noted) /\ UNCHANGED rest
    \/ WatchUnrelatedChange /\ UNCHANGED rest
    \/ WatchDeliver /\ UNCHANGED rest
    \/ WatchDisconnect /\ UNCHANGED rest

SpecWatch == InitWatch /\ [][NextWatch]_vars

(***************************************************************************)
(* Calls given a selector that document.querySelector rejects              *)
(***************************************************************************)
InvalidWaitOptions ==
    {o \in WaitOptions : /\ o.has = {"timeout", "throwErrors"}
                         /\ o.val.timeout = 300
                         /\ o.val.pollInterval = 100
                         /\ o.val.visibleCheck}

InitInvalid ==
    /\ doc \in Docs
    /\ now = 0
    /\ defaults = DefaultConfig
    /\ warnings = 0
    /\ WaitIdle
    /\ ScrollIdle
    /\ ViewAtRest
    /\ WatchIdle
    /\ selectorValid = FALSE
    /\ LogIdle
    /\ ConcWaitIdle
    /\ ConcScrollIdle

NextInvalid ==
    \/ \E options \in InvalidWaitOptions : WaitCall(options) /\ UNCHANGED rest
    \/ \E options \in WatchOptions : \E stops \in BOOLEAN :
            WatchInstall(options, stops) /\ UNCHANGED rest
    \/ \E i \in Slots : \E s \in ElemStates(i) : \E noted \in BOOLEAN :
            OneMutation(doc[i], s, noted) /\ WatchDocChange(i, s, noted) /\ UNCHANGED rest
    \/ WatchUnrelatedChange /\ UNCHANGED rest
    \/ WatchDeliver /\ UNCHANGED rest
    \/ WatchDisconnect /\ UNCHANGED rest

SpecInvalid == InitInvalid /\ [][NextInvalid]_vars

(***************************************************************************)
(* scrollToSelector given a selector string                                *)
(***************************************************************************)
QueryOptions ==
    {[has |-> h, val |-> [DefaultConfig EXCEPT !.timeout = t, !.visibleCheck = v,
                                               !.throwErrors = x, !.maxScrollAttempts = n]] :
        h \in {hh \in SUBSET {"timeout", "visibleCheck", "throwErrors", "maxScrollAttempts"} :
                  "timeout" \in hh /\ "maxScrollAttempts" \in hh},
        t \in {0, 250}, v \in BOOLEAN, x \in BOOLEAN, n \in {5}}

QueryLayouts ==
    {l \in Layouts : /\ l.kind = "static" /\ l.height = 100 /\ l.travel = 1000
                     /\ l.scroll0 = 200 /\ l.top0 \in {20, 750}}

\* the baselines config({visibleCheck: ...}) leaves
QueryBaselines == {[DefaultConfig EXCEPT !.visibleCheck = v] : v \in BOOLEAN}

InitScrollQuery ==
    /\ doc \in Docs
    /\ now = 0
    /\ defaults \in QueryBaselines
    /\ warnings = 0
    /\ WaitIdle
    /\ WatchIdle
    /\ ScrollIdle
    /\ RestIdle
    /\ layout \in QueryLayouts
    /\ innerHeight = 600
    /\ scrollY = layout.scroll0
    /\ scrollTarget = scrollY
    /\ maxScrollY = 2000

NextScrollQuery ==
    \/ \E options \in QueryOptions : ScrollCallQuery(options) /\ UNCHANGED rest
    \/ \E late \in 0..MaxLate : WaitTimer(late) /\ UNCHANGED rest
    \/ \E i \in Slots : \E s \in ElemStates(i) : WaitDocChange(i, s) /\ UNCHANGED rest
    \/ ScrollResume /\ UNCHANGED rest
    \/ ScrollFrame /\ UNCHANGED rest

SpecScrollQuery == InitScrollQuery /\ [][NextScrollQuery]_vars

(***************************************************************************)
(* The calls under a host that runs every timer and every frame callback   *)
(***************************************************************************)
LiveWaitOptions ==
    {o \in WaitOptions : /\ o.has = {"timeout", "visibleCheck", "throwErrors"}
                         /\ o.val.timeout \in {0, 250}
                         /\ o.val.pollInterval = 100}

\* the page changes between an absent, a shown and a hidden element
LiveElemStates == {NoElem, ShownElem, HiddenElem}

LiveDocs == [Slots -> LiveElemStates]

InitLive ==
    /\ now = 0
    /\ defaults = DefaultConfig
    /\ warnings = 0
    /\ WaitIdle
    /\ ScrollIdle
    /\ WatchIdle
    /\ RestIdle
    /\ \/ doc \in LiveDocs /\ ViewAtRest
       \/ /\ doc = [i \in Slots |-> ShownElem]
          /\ layout \in Layouts
          /\ innerHeight \in ViewportHeights
          /\ scrollY = layout.scroll0
          /\ scrollTarget = scrollY
          /\ maxScrollY \in PageScrolls

\* the host runs the callback of a pending timer
LiveTimer == \E late \in 0..MaxLate : WaitTimer(late) /\ UNCHANGED rest

\* the host runs the callback of a requested animation frame
LiveFrame == ScrollFrame /\ UNCHANGED rest

NextLive ==
    \/ \E options \in LiveWaitOptions : sPc = "idle" /\ WaitCall(options) /\ UNCHANGED rest
    \/ LiveTimer
    \/ \E i \in Slots : \E s \in LiveElemStates : WaitDocChange(i, s) /\ UNCHANGED rest
    \/ \E e \in Slots : \E options \in ScrollOptions :
            wPc = "idle" /\ ScrollCall(e, options) /\ UNCHANGED rest
    \/ LiveFrame

SpecLive == InitLive /\ [][NextLive]_vars /\ WF_vars(LiveTimer) /\ WF_vars(LiveFrame)

(***************************************************************************)
(* Calls of the operations between config calls                            *)
(***************************************************************************)
\* present with a box, but visibility: hidden
VeiledElem == [ShownElem EXCEPT !.visibility = "hidden"]

CfgWaitOptions ==
    {[has |-> {"timeout"}, val |-> [DefaultConfig EXCEPT !.timeout = 250]],
     [has |-> {"timeout", "pollInterval"},
      val |-> [DefaultConfig EXCEPT !.timeout = 250, !.pollInterval = 100]],
     [has |-> {"timeout", "visibleCheck", "throwErrors"},
      val |-> [DefaultConfig EXCEPT !.timeout = 0]]}

CfgScrollOptions ==
    {NoOptions,
     [has |-> {"scrollStep"}, val |-> DefaultConfig],
     [has |-> {"maxScrollAttempts", "throwErrors"},
      val |-> [DefaultConfig EXCEPT !.maxScrollAttempts = 5]]}

CfgWatchOptions ==
    {NoOptions, [has |-> {"visibleCheck"}, val |-> DefaultConfig]}

InitConfig ==
    /\ doc = [i \in Slots |-> IF i = 1 THEN VeiledElem ELSE NoElem]
    /\ now = 0
    /\ defaults = DefaultConfig
    /\ warnings = 0
    /\ WaitIdle
    /\ ScrollIdle
    /\ WatchIdle
    /\ RestIdle
    /\ layout = [kind |-> "static", top0 |-> 750, docTop |-> 950, height |-> 100,
                 travel |-> 1000, scroll0 |-> 200]
    /\ innerHeight = 600
    /\ scrollY = 200
    /\ scrollTarget = 200
    /\ maxScrollY = 2000

NextConfig ==
    \/ \E newConfig \in Partials : ConfigCall(newConfig)
    \/ \E options \in CfgWaitOptions :
            /\ sPc = "idle" /\ oPc = "idle"
            /\ WaitCall(options) /\ CallStarts("wait", options)
    \/ \E late \in 0..MaxLate : WaitTimer(late) /\ UNCHANGED rest
    \/ \E options \in CfgScrollOptions :
            /\ wPc = "idle" /\ oPc = "idle"
            /\ ScrollCall(1, options) /\ CallStarts("scroll", options)
    \/ ScrollFrame /\ UNCHANGED rest
    \/ \E options \in CfgWatchOptions : \E stops \in BOOLEAN :
            /\ wPc = "idle" /\ sPc = "idle"
            /\ WatchInstall(options, stops) /\ CallStarts("watch", options)
    \/ \E s \in {VeiledElem, ShownElem} : \E noted \in BOOLEAN :
            /\ oPc = "observing"
            /\ OneMutation(doc[1], s, noted) /\ WatchDocChange(1, s, noted) /\ UNCHANGED rest
    \/ WatchDeliver /\ UNCHANGED rest

SpecConfig == InitConfig /\ [][NextConfig]_vars

(***************************************************************************)
(* Behaviours of two concurrent calls                                      *)
(***************************************************************************)
InitRaceWait ==
    /\ doc = [i \in Slots |-> NoElem]
    /\ now = 0
    /\ defaults = DefaultConfig
    /\ warnings = 0
    /\ WaitIdle
    /\ ScrollIdle
    /\ ViewAtRest
    /\ WatchIdle
    /\ selectorValid = TRUE
    /\ LogIdle
    /\ ConcScrollIdle
    /\ qCalls = [c \in Calls |-> IdleWaiter]
    /\ qAlone = [c \in Calls |-> IdleWaiter]
    /\ qDocs \in [Calls -> {d \in LiveDocs : \A i \in Slots : i > 1 => d[i] = NoElem}]

NextRaceWait ==
    \/ \E c \in Calls : \E options \in ConcWaitOptions : ConcWaitCall(c, options)
    \/ \E c \in Calls : \E late \in 0..MaxLate : ConcWaitTimer(c, late)
    \/ \E c \in Calls : \E s \in LiveElemStates : ConcDocChange(c, s)

SpecRaceWait == InitRaceWait /\ [][NextRaceWait]_vars

InitRaceScroll ==
    /\ doc = [i \in Slots |-> ShownElem]
    /\ now = 0
    /\ defaults = DefaultConfig
    /\ warnings = 0
    /\ WaitIdle
    /\ WatchIdle
    /\ ScrollIdle
    /\ RestIdle
    /\ layout \in {l \in Layouts : /\ l.kind = "static" /\ l.top0 = 20 /\ l.height = 100
                                   /\ l.scroll0 = 200}
    /\ innerHeight = 600
    /\ scrollY = layout.scroll0
    /\ scrollTarget = scrollY
    /\ maxScrollY = 2000

NextRaceScroll ==
    \/ \E c \in Calls : \E docTop \in ConcTops : \E options \in ConcScrollOptions :
            ConcScrollCall(c, docTop, options)
    \/ ConcBeginFrame
    \/ ConcFrameCallback

SpecRaceScroll == InitRaceScroll /\ [][NextRaceScroll]_vars

(***************************************************************************)
(* Properties of waitForSelector                                           *)
(***************************************************************************)
NumChecks == Len(wCheckTimes)
LastElapsed == wCheckTimes[NumChecks]

\* every timer of the call fired exactly when it was due
OnTime == \A i \in 1..(NumChecks - 1) : wCheckTimes[i + 1] = wCheckTimes[i] + wConfig.pollInterval

Exhausted == wPc = "done" /\ wOutcome.tag # "Found"

\* C1: whenever the call resolves with an element e, then in the document of the
\* resolving check e is the first match of the selector and, if visibleCheck is
\* true, e has display not 'none', visibility not 'hidden', opacity not '0' and
\* both rendered sizes above 0.
C1_FoundIsAcceptedMatch ==
    [][(wOutcome.tag = "pending" /\ wOutcome'.tag = "Found") =>
         LET e == wOutcome'.element
         IN  /\ e \in Slots
             /\ doc[e].present
             /\ \A j \in Slots : j < e => ~doc[j].present
             /\ wConfig'.visibleCheck =>
                  /\ doc[e].display # "none"
                  /\ doc[e].visibility # "hidden"
                  /\ doc[e].opacity # "0"
                  /\ doc[e].offsetWidth > 0
                  /\ doc[e].offsetHeight > 0]_vars

C1_Witness ==
    /\ wOutcome.tag = "Found"
    /\ wConfig.visibleCheck
    /\ wOutcome.element = 2
    /\ NumChecks >= 2

\* C2 as stated: against a selector that never matches (timers on time) the call
\* completes at an elapsed time t with T <= t < T + P, as NotFound or Failed per
\* throwErrors.
C2_Original ==
    (Exhausted /\ ~wEverMatched /\ OnTime) =>
        /\ wConfig.timeout <= LastElapsed
        /\ LastElapsed < wConfig.timeout + wConfig.pollInterval
        /\ wOutcome = IF wConfig.throwErrors THEN Failed ELSE NotFound

\* C2 amended: against a selector that never matches the call completes at the
\* first check whose elapsed time t exceeds T: T < t, every earlier check read an
\* elapsed time <= T, and t <= T + P when the timers fire on time; the outcome is
\* NotFound or Failed per throwErrors.
C2_TimeoutWindow ==
    (Exhausted /\ ~wEverMatched) =>
        /\ NumChecks >= 2
        /\ wConfig.timeout < LastElapsed
        /\ \A i \in 1..(NumChecks - 1) : wCheckTimes[i] <= wConfig.timeout
        /\ OnTime => LastElapsed <= wConfig.timeout + wConfig.pollInterval
        /\ wOutcome = IF wConfig.throwErrors THEN Failed ELSE NotFound

C2_Witness ==
    /\ Exhausted /\ ~wEverMatched
    /\ wConfig.timeout = 300 /\ wConfig.pollInterval = 100
    /\ LastElapsed = 400

\* throwOnFailure=false, timeoutMs=300, pollIntervalMs=100, selector never matches
C3_Scenario ==
    /\ ~wConfig.throwErrors
    /\ wConfig.timeout = 300
    /\ wConfig.pollInterval = 100
    /\ ~wEverMatched

\* C3 as stated: in the scenario the call returns NotFound after about 3 checks
\* (3, give or take one) with exactly one warning.
C3_Original ==
    (Exhausted /\ C3_Scenario /\ OnTime) =>
        /\ wOutcome = NotFound
        /\ warnings = 1
        /\ NumChecks \in 2..4

\* C3 amended: an exhausted call fails without a warning when throwErrors is true,
\* and returns NotFound with exactly one warning when it is false; in the
\* scenario it returns NotFound with one warning after 5 checks when the timers
\* fire on time (at elapsed 0, 100, 200, 300, 400), and never after more.
C3_ExhaustionPolicy ==
    Exhausted =>
        /\ wConfig.throwErrors => (wOutcome = Failed /\ warnings = 0)
        /\ ~wConfig.throwErrors => (wOutcome = NotFound /\ warnings = 1)
        /\ C3_Scenario => (NumChecks <= 5 /\ (OnTime => NumChecks = 5))

C3_Witness ==
    /\ Exhausted /\ C3_Scenario /\ OnTime
    /\ wOutcome = NotFound
    /\ warnings = 1
    /\ NumChecks = 5

\* C4: the call returns Found at the first accepted check, after as many
\* suspensions as failed checks: none when the document is acceptable at call
\* time, and exactly 3 when, with pollInterval 100 and timers on time, the
\* accepted check is the one at elapsed 300.
C4_SuspensionsBeforeFound ==
    [][/\ (wPc = "idle" /\ wPc' # "idle" /\ querySelector(doc) # Null
              /\ (~wConfig'.visibleCheck \/ isVisible(doc, querySelector(doc)))) =>
            (wOutcome'.tag = "Found" /\ wSuspensions' = 0 /\ NumChecks' = 1 /\ now' = now)
       /\ wOutcome'.tag = "Found" =>
            /\ wSuspensions' = NumChecks' - 1
            /\ wOutcome.tag = "pending" =>
                 (querySelector(doc') # Null
                    /\ (~wConfig'.visibleCheck \/ isVisible(doc', querySelector(doc'))))
       /\ (wOutcome'.tag = "Found" /\ wConfig'.pollInterval = 100 /\ OnTime'
              /\ LastElapsed' = 300) => wSuspensions' = 3]_vars

C4_Witness ==
    /\ wOutcome.tag = "Found"
    /\ wConfig.pollInterval = 100 /\ wConfig.timeout = 300
    /\ OnTime
    /\ LastElapsed = 300
    /\ wSuspensions = 3

\* C16: the first check of a call runs synchronously in the call, at elapsed 0 and
\* before any setTimeout, also when the timeout is 0; every suspension follows a
\* check, and no call ends NotFound or Failed without a check.
C16_CheckBeforeSleep ==
    [][/\ (wPc = "idle" /\ wPc' # "idle") =>
            (NumChecks' = 1 /\ wCheckTimes'[1] = 0 /\ now' = now /\ wSuspensions' <= 1)
       /\ wPc' # "idle" => (NumChecks' >= 1 /\ wSuspensions' <= NumChecks')
       /\ wSuspensions' # wSuspensions => NumChecks' = NumChecks + 1
       /\ Exhausted' => NumChecks' >= 1]_vars

C16_Witness ==
    /\ Exhausted
    /\ wConfig.timeout = 0
    /\ NumChecks = 2
    /\ wCheckTimes[1] = 0

(***************************************************************************)
(* Properties of scrollToSelector                                          *)
(***************************************************************************)
NumScrolls == Len(sScrolls)

\* the call ended at a measurement that was not fully contained
ScrollExhausted == sPc = "done" /\ ~Contained(sRect)

\* the element moves with the page and a scroll is complete by the next frame
FullEffect == layout.kind = "static" /\ layout.travel >= sConfig.scrollStep

\* C5: a call with maxScrollAttempts = N issues at most N window.scrollBy calls,
\* whatever the layout and however it ends.
C5_AtMostNScrolls == sPc # "idle" => NumScrolls <= sConfig.maxScrollAttempts

C5_Witness ==
    /\ sPc = "done"
    /\ sConfig.maxScrollAttempts = 5
    /\ NumScrolls = 4
    /\ sOutcome.tag = "Found"
    /\ Contained(sRect)

\* C6: when no measurement ever finds the element contained, with
\* maxScrollAttempts = 5 and throwErrors = false, the call issues 5 scroll
\* adjustments and then resolves with the element after one warning.
C6_Original ==
    (ScrollExhausted /\ sConfig.maxScrollAttempts = 5 /\ ~sConfig.throwErrors) =>
        /\ NumScrolls = 5
        /\ sOutcome = Found(sElement)
        /\ warnings = 1

\* C6 amended: in that case the call measures 5 times, issues 4 scroll
\* adjustments (none after the fifth measurement) and then resolves with the
\* element after one warning.
C6_FourScrolls ==
    (ScrollExhausted /\ sConfig.maxScrollAttempts = 5 /\ ~sConfig.throwErrors) =>
        /\ sAttempts = 5
        /\ NumScrolls = 4
        /\ sOutcome = Found(sElement)
        /\ warnings = 1

\* C7: a call that exhausts its attempts without containment rejects when
\* throwErrors is true and never yields the element; when it is false it warns
\* once and resolves with the element handle it was given, never null. With
\* throwErrors true every resolved call measured the element fully contained at
\* its last measurement.
C7_ScrollExhaustionPolicy ==
    /\ ScrollExhausted =>
         /\ AttemptsExhausted(sAttempts, sConfig)
         /\ sConfig.throwErrors => (sOutcome = Failed /\ warnings = 0)
         /\ ~sConfig.throwErrors =>
              (sOutcome.tag = "Found" /\ sOutcome.element = sElement
                 /\ sOutcome.element # Null /\ warnings = 1)
    /\ (sPc = "done" /\ sConfig.throwErrors /\ sOutcome.tag = "Found") =>
         (sRect.top >= 0 /\ sRect.bottom <= innerHeight /\ sOutcome.element = sElement)
    /\ sPc = "done" => sOutcome.tag \in {"Found", "Failed"}

C7_Witness ==
    /\ ScrollExhausted
    /\ sConfig.throwErrors
    /\ sOutcome = Failed
    /\ NumScrolls >= 1

\* an element that fits in the viewport, its bottom 250px past the viewport's
\* bottom at call time, a page that scrolls far enough, scrollStep 100 and
\* maxScrollAttempts 50
C8_Scenario ==
    /\ FullEffect
    /\ layout.height <= innerHeight
    /\ layout.top0 + layout.height = innerHeight + 250
    /\ maxScrollY >= layout.scroll0 + 300
    /\ sConfig.scrollStep = 100
    /\ sConfig.maxScrollAttempts = 50

\* C8: in that scenario the call issues exactly 3 adjustments, all downward, and
\* resolves with the element contained.
C8_Original ==
    (sPc = "done" /\ C8_Scenario) =>
        /\ sScrolls = <<100, 100, 100>>
        /\ sOutcome = Found(sElement)
        /\ Contained(sRect)

C6_Witness ==
    /\ ScrollExhausted /\ sConfig.maxScrollAttempts = 5 /\ ~sConfig.throwErrors
    /\ layout.kind = "fixed"
    /\ NumScrolls = 4
    /\ sOutcome = Found(sElement)

\* the elements for which the code does as the scenario of C8 says: height <= 550
C8_SmallElement ==
    (sPc = "done" /\ C8_Scenario /\ layout.height <= innerHeight - 50) =>
        /\ sScrolls = <<100, 100, 100>>
        /\ sOutcome = Found(sElement)
        /\ Contained(sRect)

\* distance by which the edge the code steers by lies outside the viewport
OutOfBounds(rect) ==
    IF rect.top < 0 THEN 0 - rect.top
    ELSE IF rect.bottom > innerHeight THEN rect.bottom - innerHeight
    ELSE 0

Oscillates(scrolls) ==
    \E i, j \in 1..Len(scrolls) : scrolls[i] < 0 /\ scrolls[j] > 0

\* C9: under a stationary layout in which each adjustment takes full effect, every
\* adjustment strictly reduces the out-of-bounds distance read at the next
\* measurement, and the adjustments of a call never go in both directions (stated
\* here for the elements that fit in the viewport).
C9_Original ==
    [][(sPc = "frame" /\ FullEffect /\ layout.height <= innerHeight
          /\ scrollY' = scrollY + sScrolls[NumScrolls]) =>
          /\ OutOfBounds(sRect') < OutOfBounds(sRect)
          /\ ~Oscillates(sScrolls')]_vars

(***************************************************************************)
(* Properties of observeSelector                                           *)
(***************************************************************************)
\* C10: for a watcher installed while nothing matches, the callback is invoked at
\* most once, with the element that was inserted, however many mutation batches
\* are delivered before and after the element appears.
C10_Original ==
    (oPc # "idle" /\ ~oMatchedAtInstall) =>
        /\ Len(oCallbacks) <= 1
        /\ \A k \in 1..Len(oCallbacks) : oCallbacks[k] \in Slots

\* what the code does in the case of C10: one callback for every delivered batch
\* at which the document is acceptable, so at most one only if the callback
\* disconnects the observer
C10_OncePerBatch ==
    /\ Len(oCallbacks) <= oBatches
    /\ oStops => Len(oCallbacks) <= 1

\* C11: once the observer is disconnected (by the caller or by the callback) the
\* callback is never invoked again, whatever the page does afterwards; and the
\* observer is disconnected only on request: a delivered batch leaves it observing
\* unless the callback it invoked disconnects it.
C11_NoCallbackAfterDisposal ==
    [][/\ oPc = "disconnected" =>
            (oCallbacks' = oCallbacks /\ oPc' = "disconnected" /\ oBatches' = oBatches)
       /\ (oPc = "observing" /\ oBatches' # oBatches
              /\ ~(oStops /\ oCallbacks' # oCallbacks)) => oPc' = "observing"]_vars

C11_Witness ==
    /\ oPc = "disconnected"
    /\ ~oStops
    /\ oLateChanges
    /\ Len(oCallbacks) = 1
    /\ Accepted(doc, oConfig)

\* C19: the acceptance predicate is evaluated only when a mutation batch is
\* delivered: installing a watcher invokes no callback even if an acceptable
\* element is already there, and every callback belongs to a delivered batch for
\* which mutation records were queued.
C19_NoCheckAtInstall ==
    [][/\ oPc = "idle" => oCallbacks' = <<>>
       /\ oCallbacks' # oCallbacks =>
            (oPc = "observing" /\ oRecords /\ oBatches' = oBatches + 1
               /\ Len(oCallbacks') = Len(oCallbacks) + 1)]_vars

C19_Witness ==
    /\ oPc = "observing"
    /\ oMatchedAtInstall
    /\ querySelector(doc) # Null /\ isVisible(doc, querySelector(doc))
    /\ oBatches = 0
    /\ ~oRecords
    /\ oCallbacks = <<>>

(***************************************************************************)
(* Properties of the calls given an invalid selector                       *)
(***************************************************************************)
\* C12: a selector that document.querySelector rejects is treated as no match:
\* waitForSelector never settles with the host's error, it ends only with the
\* timeout outcome of throwErrors after the timeout has passed, and no exception
\* leaves the watcher's mutation handler uncaught.
C12_Original ==
    ~selectorValid =>
        /\ wOutcome.tag # "SyntaxError"
        /\ wPc = "done" =>
             (wOutcome = ExhaustOutcome(wConfig) /\ LastElapsed > wConfig.timeout)
        /\ oUncaught = 0

\* what the code does in the case of C12: the call rejects with the host's error
\* at its first check, without polling or warning, whatever throwErrors is, and
\* every delivered batch throws out of the handler without invoking the callback
C12_ErrorPropagates ==
    ~selectorValid =>
        /\ wPc = "done" => (wOutcome = HostError /\ NumChecks = 1 /\ wSuspensions = 0)
        /\ warnings = 0
        /\ oUncaught = oBatches
        /\ oCallbacks = <<>>

(***************************************************************************)
(* Properties of scrollToSelector given a selector string                  *)
(***************************************************************************)
\* C17: scrollToSelector given a selector string resolves it with visibleCheck
\* false whatever the caller's options and the baseline say: a check that finds
\* an element, visible or not, ends the resolution with it, and that element is
\* measured at once; when the resolution fails the call issues no measurement and
\* no scroll, fails when throwErrors is true and otherwise returns null with at
\* least one warning.
C17_ResolvesByPresence ==
    [][/\ sPc' = "resolving" => ~wConfig'.visibleCheck
       /\ (sPc' = "resolving" /\ NumChecks' # NumChecks /\ querySelector(doc) # Null) =>
             (wPc' = "done" /\ wOutcome' = Found(querySelector(doc)))
       /\ (sPc = "resolving" /\ sPc' # "resolving" /\ wOutcome.tag = "Found") =>
             (sElement' = wOutcome.element /\ sAttempts' = 1 /\ sPc' \in {"frame", "done"})
       /\ (sPc = "resolving" /\ sPc' # "resolving" /\ wOutcome.tag # "Found") =>
             /\ sPc' = "done"
             /\ sScrolls' = <<>> /\ sAttempts' = 0 /\ scrollY' = scrollY
             /\ scrollTarget' = scrollTarget
             /\ sOutcome' = IF sConfig.throwErrors THEN Failed ELSE NotFound
             /\ sConfig.throwErrors => warnings' = 0
             /\ ~sConfig.throwErrors => warnings' >= 1]_vars

\* an element that is not visible, resolved for a caller whose visibleCheck is true,
\* has been scrolled towards
C17_Witness ==
    /\ sPc = "done"
    /\ sConfig.visibleCheck
    /\ sElement # Null
    /\ ~isVisible(doc, sElement)
    /\ sOutcome = Found(sElement)
    /\ NumScrolls >= 1

\* a failed resolution of a caller with throwErrors false
C17_NullReturned ==
    /\ sPc = "done"
    /\ sElement = Null
    /\ sOutcome = NotFound
    /\ warnings = 2

(***************************************************************************)
(* Termination of the bounded waits                                        *)
(***************************************************************************)
Settled(outcome) == outcome.tag \in {"Found", "NotFound", "Failed"}

\* what never changes once the calls have settled, and the bounds a call in
\* flight stays within
C18_Safety ==
    /\ wPc # "done" => wOutcome = Pending
    /\ sPc # "done" => sOutcome = Pending
    /\ wPc = "done" =>
         /\ Settled(wOutcome)
         /\ UNCHANGED <<wPc, wOutcome, wTimerDue, wCheckTimes, wSuspensions, now>>
    /\ sPc = "done" =>
         /\ Settled(sOutcome)
         /\ sOutcome.tag # "NotFound"
         /\ UNCHANGED <<sPc, sOutcome, sAttempts, sScrolls, scrollTarget>>
    /\ wPc' = "waiting" => LastElapsed' <= wConfig'.timeout
    /\ sPc' = "frame" => (sAttempts' >= 1 /\ sAttempts' < sConfig'.maxScrollAttempts)
    /\ sPc' = "done" =>
         (sAttempts' >= 1 /\ sAttempts' <= Max(1, sConfig'.maxScrollAttempts))

\* C18: with timers and frame callbacks that eventually fire, every
\* waitForSelector call that is waiting eventually settles, as Found, NotFound or
\* Failed, and every scrollToSelector call that awaits a frame eventually settles,
\* after at least one and at most max(1, maxScrollAttempts) measurements, whatever
\* the page does meanwhile; a settled call stays settled with the same outcome and
\* schedules no timer, frame callback, check or scroll any more.
C18_RunsToCompletion ==
    /\ (wPc = "waiting") ~> (wPc = "done")
    /\ (sPc = "frame") ~> (sPc = "done")
    /\ [][C18_Safety]_vars

\* a call that settled as NotFound at its fourth check, after the page changed
C18_Witness ==
    /\ wPc = "done"
    /\ wOutcome = NotFound
    /\ NumChecks = 4
    /\ wSuspensions = 3
    /\ wEverMatched

(***************************************************************************)
(* Properties of the configuration                                         *)
(***************************************************************************)
RECURSIVE Baseline(_)
\* the baseline after the first n config calls
Baseline(n) == IF n = 0 THEN DefaultConfig ELSE Assign(Baseline(n - 1), cfgLog[n])

\* cfg is the baseline the call of op started under, overridden by its options
Effective(op, cfg) ==
    \A k \in Keys :
        cfg[k] = IF k \in callLog[op].opts.has THEN callLog[op].opts.val[k]
                 ELSE Baseline(callLog[op].at)[k]

\* C15: the baseline is the defaults overridden by every config call so far, in
\* order, and the configuration of every call is, key by key, the call's option
\* when it gives one and otherwise the baseline as the config calls made before
\* the call left it.
C15_EffectiveConfig ==
    /\ defaults = Baseline(Len(cfgLog))
    /\ wPc # "idle" => Effective("wait", wConfig)
    /\ sPc # "idle" => Effective("scroll", sConfig)
    /\ oPc # "idle" => Effective("watch", oConfig)

\* a call started after two config calls polls at the new baseline's interval and
\* keeps its own timeout over the one the baseline was given
C15_Witness ==
    /\ wPc = "waiting"
    /\ callLog["wait"].at = 2
    /\ callLog["wait"].opts.has = {"timeout"}
    /\ wConfig.pollInterval = 150
    /\ wConfig.timeout = 250
    /\ defaults.timeout = 250 /\ DefaultConfig.timeout = 10000
    /\ wSuspensions >= 2

\* C20: a config call leaves the configuration of every call alone, a call in
\* flight never changes its configuration, and a call starts with the baseline of
\* that moment, overridden by its own options.
C20_SnapshotAtStart ==
    [][/\ cfgLog' # cfgLog =>
            (wConfig' = wConfig /\ sConfig' = sConfig /\ oConfig' = oConfig)
       /\ wPc # "idle" => wConfig' = wConfig
       /\ sPc # "idle" => sConfig' = sConfig
       /\ oPc # "idle" => oConfig' = oConfig
       /\ (wPc = "idle" /\ wPc' # "idle") =>
            \A k \in Keys : wConfig'[k] = IF k \in callLog'["wait"].opts.has
                                          THEN callLog'["wait"].opts.val[k] ELSE defaults[k]
       /\ (sPc = "idle" /\ sPc' # "idle") =>
            \A k \in Keys : sConfig'[k] = IF k \in callLog'["scroll"].opts.has
                                          THEN callLog'["scroll"].opts.val[k] ELSE defaults[k]
       /\ (oPc = "idle" /\ oPc' # "idle") =>
            \A k \in Keys : oConfig'[k] = IF k \in callLog'["watch"].opts.has
                                          THEN callLog'["watch"].opts.val[k] ELSE defaults[k]]_vars

\* a scroll call awaiting a frame keeps its step and cap after config changed both
C20_Witness ==
    /\ sPc = "frame"
    /\ callLog["scroll"].at < Len(cfgLog)
    /\ sConfig.scrollStep = 100 /\ defaults.scrollStep = 30
    /\ sConfig.maxScrollAttempts = 50 /\ defaults.maxScrollAttempts = 2
    /\ sAttempts >= 2

RECURSIVE AloneRun(_, _, _, _)
\* whether a scrollToSelector call that is the only one resolves with its element
\* contained, from its measurement number attempts + 1 at scroll position y
AloneRun(docTop, cfg, y, attempts) ==
    LET rect == ConcRect(docTop, y)
    IN  IF Contained(rect) THEN TRUE
        ELSE IF AttemptsExhausted(NextAttempts(attempts), cfg) THEN FALSE
        ELSE AloneRun(docTop, cfg, Animate(y, ClampScroll(y + ScrollDelta(rect, cfg))),
                      NextAttempts(attempts))

\* call c converges when run alone on the page at rest, at the scroll position
\* the page starts from and at the one call c was made at
ConvergesAlone(c) ==
    /\ AloneRun(cCalls[c].docTop, cCalls[c].config, layout.scroll0, 0)
    /\ AloneRun(cCalls[c].docTop, cCalls[c].config, cCalls[c].y0, 0)

\* C14: when two concurrent scrollToSelector calls on two elements of a page at
\* rest have both settled, and each of them converges when run alone, both have
\* resolved with their element contained in the viewport.
C14_Original ==
    (/\ \A c \in Calls : cCalls[c].pc = "done"
     /\ \A c \in Calls : ConvergesAlone(c))
        => \A c \in Calls : cCalls[c].contained

====
